---- MODULE Spec2Model ----
(***************************************************************************)
(* Model of nextjs/lib/pcd.ts: the public-signal encoder of a              *)
(* ZKEdDSAEventTicketPCD claim, the frontend proof checks and the          *)
(* forwarding of the proof to the server.                                  *)
(*                                                                         *)
(* JavaScript strings are TLA+ strings.  A bigint never appears as a       *)
(* number: it is carried as its canonical decimal string, which is what    *)
(* BigInt.prototype.toString() returns, and arithmetic is done on the      *)
(* digits, so the 254-bit field constants keep their real values.          *)
(* An optional field is None (undefined) or Some(v).                       *)
(***************************************************************************)
EXTENDS Integers, Sequences, FiniteSets, TLC

\* ------------------------------------------------------------------------
\* Optional values: `undefined` and a present value.

None == <<>>

Some(v) == <<v>>

\* ------------------------------------------------------------------------
\* Characters and digit arithmetic behind BigInt('0x..') and toString().

DecChars == <<"0", "1", "2", "3", "4", "5", "6", "7", "8", "9">>

DecDigits == {DecChars[i] : i \in 1..10}

DecVal(c) == CHOOSE v \in 0..9 : DecChars[v + 1] = c

HexLower == <<"0", "1", "2", "3", "4", "5", "6", "7", "8", "9",
              "a", "b", "c", "d", "e", "f">>

HexUpper == <<"0", "1", "2", "3", "4", "5", "6", "7", "8", "9",
              "A", "B", "C", "D", "E", "F">>

HexDigits == {HexLower[i] : i \in 1..16} \cup {HexUpper[i] : i \in 1..16}

HexVal(c) == CHOOSE v \in 0..15 : HexLower[v + 1] = c \/ HexUpper[v + 1] = c

CharAt(s, i) == SubSeq(s, i, i)

\* Number.prototype.toString() of an integer.
RECURSIVE NatToString(_)
NatToString(n) ==
  IF n < 10 THEN DecChars[n + 1]
  ELSE NatToString(n \div 10) \o DecChars[(n % 10) + 1]

IntToString(n) == IF n < 0 THEN "-" \o NatToString(0 - n) ELSE NatToString(n)

\* ------------------------------------------------------------------------
\* A bigint is held as limbs in base LimbBase, least significant first and
\* without leading zero limbs (zero is the empty sequence).

LimbBase == 10000

HexChunk == 4

HexChunkBase == 16 ^ HexChunk

\* n * m + carry, limbs i.. of n.
RECURSIVE LimbMulAddFrom(_, _, _, _)
LimbMulAddFrom(n, i, m, carry) ==
  IF i > Len(n)
  THEN IF carry = 0 THEN <<>>
       ELSE <<carry % LimbBase>> \o LimbMulAddFrom(n, i, m, carry \div LimbBase)
  ELSE LET v == n[i] * m + carry
       IN  <<v % LimbBase>> \o LimbMulAddFrom(n, i + 1, m, v \div LimbBase)

LimbMulAdd(n, m, carry) == LimbMulAddFrom(n, 1, m, carry)

\* The value of hex digits from..to of hex (at most HexChunk of them).
RECURSIVE HexChunkVal(_, _, _)
HexChunkVal(hex, from, to) ==
  IF to < from THEN 0
  ELSE HexChunkVal(hex, from, to - 1) * 16 + HexVal(CharAt(hex, to))

\* BigInt('0x' + hex), hex digits 1..upto, HexChunk digits at a time from the
\* right; only the leftmost chunk can be shorter, and it is added to zero.
RECURSIVE HexToLimbs(_, _)
HexToLimbs(hex, upto) ==
  IF upto <= 0 THEN <<>>
  ELSE LET from == IF upto > HexChunk THEN upto - HexChunk + 1 ELSE 1
       IN  LimbMulAdd(HexToLimbs(hex, from - 1), HexChunkBase,
                      HexChunkVal(hex, from, upto))

\* A limb below the top one prints as LimbDigits digits.
PadLimb(v) ==
  LET s == NatToString(v)
  IN  SubSeq("0000", 1, Len(NatToString(LimbBase - 1)) - Len(s)) \o s

RECURSIVE LimbsToString(_, _)
LimbsToString(n, i) ==
  IF i = Len(n) THEN NatToString(n[i])
  ELSE LimbsToString(n, i + 1) \o PadLimb(n[i])

\* BigInt.prototype.toString()
BigIntToString(n) == IF n = <<>> THEN "0" ELSE LimbsToString(n, 1)

\* ------------------------------------------------------------------------
\* The values the inputs are drawn from.

\* UUIDs: the ETHBerlin event id of ETHBERLIN_ZUAUTH_CONFIG, two more, and
\* the nil UUID (whose encoding is "0").
UuidPool == <<"53edb3e7-6733-41e0-a9be-488877c5c572",
              "f47ac10b-58cc-4372-a567-0e02b2c3d479",
              "00000000-0000-0000-0000-000000000000",
              "9b2c7e4a-1f3d-4c8b-8a6e-5d0f1e2a3b4c",
              "6ba7b810-9dad-11d1-80b4-00c04fd430c8">>

ETHBERLIN_PUBLIC_KEY ==
  <<"1ebfb986fbac5113f8e2c72286fe9362f8e7d211dbc68227a468d7b919e75003",
    "10ec38f11baacad5535525bbe8e343074a483c051aa1616266f3b1df3fb7d204">>

OTHER_PUBLIC_KEY ==
  <<"05e0c4e8517758da3a26c80310ff2fe65b9f85d89dfc9c80e6d0b6477f88173e",
    "29ae64b615383a0ebb1bc37b3a642d82d37545f0f5b1444330300e4c4eedba3f">>

\* The ETHBerlin key with its second half replaced.
HALF_PUBLIC_KEY == <<ETHBERLIN_PUBLIC_KEY[1], OTHER_PUBLIC_KEY[2]>>

\* A key whose first half is the hex numeral of P, one above the field.
OUT_OF_FIELD_KEY ==
  <<"30644e72e131a029b85045b68181585d2833e84879b9709143e1f593f0000001",
    ETHBERLIN_PUBLIC_KEY[2]>>

Signers ==
  {ETHBERLIN_PUBLIC_KEY, OTHER_PUBLIC_KEY, HALF_PUBLIC_KEY, OUT_OF_FIELD_KEY}

Addresses == {"0xd8dA6BF26964aF9D7eEd9e03E53415D37aA96045",
              "0x00000000219ab540356cBB839Cbe05303d7705Fa",
              "0x0000000000000000000000000000000000000001"}

\* js-sha256 is a library: its digests of the messages the model hashes.
Sha256Digest ==
  ("dummy-nullifier-for-eddsa-event-ticket-pcds" :>
     "ad740afbb549fc1d322e247c22f10e788e8546f0b08b98678f51e204801e75cd") @@
  ("" :> "e3b0c44298fc1c149afbf4c8996fb92427ae41e4649b934ca495991b7852b855") @@
  ("alice@example.com" :>
     "ff8d9819fc0e12bf0d24892e45987e249a28dce836a85cad60e28eaaa8c6d976") @@
  ("bob@example.com" :>
     "5ff860bf1190596c7188ab851db691f0f3169c453936e9e1eba2f9a47f7a0018") @@
  ("Alice" :> "3bc51062973c458d5a6f2d8d64a023246354ad7e064b1e4e009ec8a0699a3043") @@
  ("Bob" :> "cd9fb1e148ccd8442e5aa74904cc73bf6fb54d1d54d333bd596aa9bb4bb4e961")

sha256(message) == Sha256Digest[message]

\* The hex digits of a UUID, 8-4-4-4-12, without its dashes.
UuidHex(v) ==
  SubSeq(v, 1, 8) \o SubSeq(v, 10, 13) \o SubSeq(v, 15, 18) \o
  SubSeq(v, 20, 23) \o SubSeq(v, 25, 36)

\* '0x' is optional in hexToBigInt's argument.
StripHexPrefix(v) ==
  IF Len(v) >= 2 /\ SubSeq(v, 1, 2) = "0x" THEN SubSeq(v, 3, Len(v)) ELSE v

\* x >> 8 of the integer written by hex: its last two hex digits dropped.
ShiftRight8(hex) == SubSeq(hex, 1, Len(hex) - 2)

\* Every hex numeral the model converts, converted once.
KnownHex ==
  {UuidHex(UuidPool[i]) : i \in 1..Len(UuidPool)} \cup
  {k[j] : k \in Signers, j \in 1..2} \cup
  {StripHexPrefix(a) : a \in Addresses} \cup
  {ShiftRight8(Sha256Digest[m]) : m \in DOMAIN Sha256Digest}

DecimalOfKnownHex ==
  [hex \in KnownHex |-> BigIntToString(HexToLimbs(hex, Len(hex)))]

\* BigInt('0x' + hex).toString()
HexToDecimalString(hex) ==
  IF hex \in KnownHex THEN DecimalOfKnownHex[hex]
  ELSE BigIntToString(HexToLimbs(hex, Len(hex)))

\* ------------------------------------------------------------------------
\* @pcd/util conversions, each followed by toString() as at every call site.

uuidToBigInt(v) == HexToDecimalString(UuidHex(v))

hexToBigInt(v) == HexToDecimalString(StripHexPrefix(v))

booleanToBigInt(v) == IF v THEN "1" ELSE "0"

numberToBigInt(v) == IntToString(v)

\* ------------------------------------------------------------------------
\* pcd.ts

BABY_JUB_NEGATIVE_ONE ==
  "21888242871839275222246405745257275088548364400416034343698204186575808495616"

VALID_EVENT_IDS_MAX_LEN == 20

\* Mutant: the digest is not shifted into the field.
generateSnarkMessageHash_unshifted(signal) == HexToDecimalString(sha256(signal))

generateSnarkMessageHash(signal) == HexToDecimalString(ShiftRight8(sha256(signal)))

STATIC_TICKET_PCD_NULLIFIER ==
  generateSnarkMessageHash("dummy-nullifier-for-eddsa-event-ticket-pcds")

\* A call returns a value or throws.
Returned(value) == [outcome |-> "returned", value |-> value, error |-> ""]

Threw(message) == [outcome |-> "threw", value |-> <<>>, error |-> message]

CapacityExceededMessage(length) ==
  "validEventIds for a ZKEdDSAEventTicketPCD can have up to 100 entries.  " \o
  NatToString(length) \o " given."

\* Mutant: the unused slots are padded with zero.
snarkIdsFill_zeroPadded(ids) ==
  [i \in 1..VALID_EVENT_IDS_MAX_LEN |->
     IF i <= Len(ids) THEN uuidToBigInt(ids[i]) ELSE "0"]

\* new Array(VALID_EVENT_IDS_MAX_LEN), then snarkIds[i] = the encoding of the
\* i-th id for every id (the array grows if there are more), then
\* snarkIds[i] = negOne for the i left below VALID_EVENT_IDS_MAX_LEN.
snarkIdsFill(ids) ==
  LET length == IF Len(ids) > VALID_EVENT_IDS_MAX_LEN
                THEN Len(ids) ELSE VALID_EVENT_IDS_MAX_LEN
  IN  [i \in 1..length |->
         IF i <= Len(ids) THEN uuidToBigInt(ids[i]) ELSE BABY_JUB_NEGATIVE_ONE]

\* Mutant: the limit of the error message, not VALID_EVENT_IDS_MAX_LEN.
CapacityExceeded_hundred(ids) == Len(ids) > 100

CapacityExceeded(ids) == Len(ids) > VALID_EVENT_IDS_MAX_LEN

snarkInputForValidEventIds(validEventIds) ==
  LET ids == IF validEventIds = None THEN <<>> ELSE validEventIds[1]
  IN  IF CapacityExceeded(ids)
      THEN Threw(CapacityExceededMessage(Len(ids)))
      ELSE Returned(snarkIdsFill(ids))

\* Mutant: x ?? fallback, which keeps ''.
JsOr_nullish(x, fallback) == IF x = None THEN fallback ELSE x[1]

\* x || fallback on an optional string: undefined and '' are falsy.
JsOr(x, fallback) == IF x = None \/ x[1] = "" THEN fallback ELSE x[1]

\* The eleven ticket outputs, in the order they are pushed.
ticketSignals(t) ==
  LET negOne == BABY_JUB_NEGATIVE_ONE
  IN  << IF t.ticketId = None THEN negOne ELSE uuidToBigInt(t.ticketId[1]),
         IF t.eventId = None THEN negOne ELSE uuidToBigInt(t.eventId[1]),
         IF t.productId = None THEN negOne ELSE uuidToBigInt(t.productId[1]),
         IF t.timestampConsumed = None THEN negOne
         ELSE IntToString(t.timestampConsumed[1]),
         IF t.timestampSigned = None THEN negOne
         ELSE IntToString(t.timestampSigned[1]),
         JsOr(t.attendeeSemaphoreId, negOne),
         IF t.isConsumed = None THEN negOne ELSE booleanToBigInt(t.isConsumed[1]),
         IF t.isRevoked = None THEN negOne ELSE booleanToBigInt(t.isRevoked[1]),
         IF t.ticketCategory = None THEN negOne
         ELSE numberToBigInt(t.ticketCategory[1]),
         IF t.attendeeEmail = None THEN negOne
         ELSE generateSnarkMessageHash(t.attendeeEmail[1]),
         IF t.attendeeName = None THEN negOne
         ELSE generateSnarkMessageHash(t.attendeeName[1]) >>

\* Mutant: the placeholder is not pushed.
reservedSignals_dropped == <<>>

\* Placeholder for reserved field
reservedSignals == <<BABY_JUB_NEGATIVE_ONE>>

\* Mutant: an absent nullifierHash becomes zero.
nullifierHashSignal_zero(claim) == JsOr(claim.nullifierHash, "0")

nullifierHashSignal(claim) == JsOr(claim.nullifierHash, BABY_JUB_NEGATIVE_ONE)

signerSignals(claim) == <<hexToBigInt(claim.signer[1]), hexToBigInt(claim.signer[2])>>

\* Mutant: the flag follows the length of the allowlist.
checkValidEventIds_byLength(claim) ==
  IF claim.validEventIds # None /\ Len(claim.validEventIds[1]) > 0
  THEN "1" ELSE "0"

checkValidEventIds(claim) == IF claim.validEventIds # None THEN "1" ELSE "0"

\* Mutant: an absent externalNullifier becomes the sentinel.
externalNullifierSignal_sentinel(claim) ==
  JsOr(claim.externalNullifier, BABY_JUB_NEGATIVE_ONE)

externalNullifierSignal(claim) ==
  JsOr(claim.externalNullifier, STATIC_TICKET_PCD_NULLIFIER)

publicSignalsFromClaim(claim) ==
  LET head == ticketSignals(claim.partialTicket) \o reservedSignals \o
              <<nullifierHashSignal(claim)>> \o signerSignals(claim)
      ids == snarkInputForValidEventIds(claim.validEventIds)
  IN  IF ids.outcome = "threw" THEN ids
      ELSE Returned(head \o ids.value \o
                    <<checkValidEventIds(claim), externalNullifierSignal(claim),
                      claim.watermark>>)

\* ------------------------------------------------------------------------
\* The claims the encoder is called on.

MaxOver == 2

MaxRotations == 3

\* The UUID pool read cyclically from offset k: a list of the given length.
AllowList(k, length) ==
  [i \in 1..length |-> UuidPool[((i + k) % Len(UuidPool)) + 1]]

AllowLists ==
  {AllowList(k, length) : k \in 1..MaxRotations,
                          length \in 0..(VALID_EVENT_IDS_MAX_LEN + MaxOver)}

ValidEventIdsArgs == {None} \cup {Some(ids) : ids \in AllowLists}

SEMAPHORE_ID == "18711405342588116796533073928767088921854096266145046362753928030796553161041"

NULLIFIER_HASH == "1517081033071132720435657432021139876572843496027662548196342287861804968602"

EXTERNAL_NULLIFIER == "42"

\* P itself: a decimal string one above the largest field element.
FIELD_MODULUS == "21888242871839275222246405745257275088548364400416034343698204186575808495617"

TIMESTAMP == 1716854400

\* What a string field that is passed through can hold.
PassThroughValues(valid) == {None, Some(""), Some(valid), Some(FIELD_MODULUS)}

Watermarks ==
  {hexToBigInt(a) : a \in Addresses} \cup
  {"0xd8dA6BF26964aF9D7eEd9e03E53415D37aA96045", FIELD_MODULUS}

PartialTickets ==
  [ ticketId : {None, Some(UuidPool[4])},
    eventId : {None, Some(UuidPool[1])},
    productId : {None, Some(UuidPool[5])},
    timestampConsumed : {None, Some(TIMESTAMP), Some(-1)},
    timestampSigned : {None, Some(TIMESTAMP - 1)},
    attendeeSemaphoreId : {None, Some(""), Some(SEMAPHORE_ID)},
    isConsumed : {None, Some(TRUE), Some(FALSE)},
    isRevoked : {None, Some(TRUE), Some(FALSE)},
    ticketCategory : {None, Some(3), Some(-1)},
    attendeeEmail : {None, Some("alice@example.com")},
    attendeeName : {None, Some("Alice"), Some("")} ]

NoTicketFields ==
  [ ticketId |-> None, eventId |-> None, productId |-> None,
    timestampConsumed |-> None, timestampSigned |-> None,
    attendeeSemaphoreId |-> None, isConsumed |-> None, isRevoked |-> None,
    ticketCategory |-> None, attendeeEmail |-> None, attendeeName |-> None ]

AllTicketFields ==
  [ ticketId |-> Some(UuidPool[4]), eventId |-> Some(UuidPool[1]),
    productId |-> Some(UuidPool[5]), timestampConsumed |-> Some(TIMESTAMP),
    timestampSigned |-> Some(TIMESTAMP - 1),
    attendeeSemaphoreId |-> Some(SEMAPHORE_ID), isConsumed |-> Some(TRUE),
    isRevoked |-> Some(FALSE), ticketCategory |-> Some(3),
    attendeeEmail |-> Some("bob@example.com"), attendeeName |-> Some("Bob") ]

\* Every combination of ticket fields, under a claim with nothing else and
\* under one with everything else.
TicketClaims ==
  [ partialTicket : PartialTickets,
    nullifierHash : {None},
    signer : {ETHBERLIN_PUBLIC_KEY},
    validEventIds : {None},
    externalNullifier : {None},
    watermark : {hexToBigInt("0xd8dA6BF26964aF9D7eEd9e03E53415D37aA96045")} ]
  \cup
  [ partialTicket : PartialTickets,
    nullifierHash : {Some(NULLIFIER_HASH)},
    signer : {OTHER_PUBLIC_KEY},
    validEventIds : {Some(AllowList(1, 2))},
    externalNullifier : {Some(EXTERNAL_NULLIFIER)},
    watermark : {hexToBigInt("0x00000000219ab540356cBB839Cbe05303d7705Fa")} ]

\* Every combination of the claim's own fields, under no ticket field and
\* under all of them.
EnvelopeClaims ==
  [ partialTicket : {NoTicketFields, AllTicketFields},
    nullifierHash : PassThroughValues(NULLIFIER_HASH),
    signer : {ETHBERLIN_PUBLIC_KEY, OTHER_PUBLIC_KEY, OUT_OF_FIELD_KEY},
    validEventIds : ValidEventIdsArgs,
    externalNullifier : PassThroughValues(EXTERNAL_NULLIFIER),
    watermark : Watermarks ]

Claims == TicketClaims \cup EnvelopeClaims

\* ------------------------------------------------------------------------
\* verifyProofFrontend and sendPCDToServer, one step per await or check.

ETHBERLIN_ZUAUTH_CONFIG ==
  <<[ pcdType |-> "eddsa-ticket-pcd",
      publicKey |-> ETHBERLIN_PUBLIC_KEY,
      eventId |-> "53edb3e7-6733-41e0-a9be-488877c5c572",
      eventName |-> "ETHBerlin04",
      productId |-> "",
      productName |-> "" ]>>

\* Mutant: only the first half of the key is compared.
isETHBerlinPublicKey_firstHalf(signer) ==
  signer[1] = "1ebfb986fbac5113f8e2c72286fe9362f8e7d211dbc68227a468d7b919e75003"

isETHBerlinPublicKey(signer) ==
  /\ signer[1] = "1ebfb986fbac5113f8e2c72286fe9362f8e7d211dbc68227a468d7b919e75003"
  /\ signer[2] = "10ec38f11baacad5535525bbe8e343074a483c051aa1616266f3b1df3fb7d204"

\* deserializedPCD.claim.watermark.toString() !== hexToBigInt(address).toString()
watermarkMismatch(pcdClaim, addr) == pcdClaim.watermark # hexToBigInt(addr)

\* A call that has not started: nothing evaluated, logged or returned.
\* value is the returned value, None for undefined.
Idle ==
  [ pc |-> "start", evaluated |-> <<>>, log |-> <<>>, outcome |-> "none",
    value |-> None, verified |-> None, posts |-> 0, request |-> None,
    fetch |-> "none", status |-> None ]

\* console.error(line); return
LogAndReturn(call, line) ==
  [call EXCEPT !.pc = "done", !.log = Append(@, line),
               !.outcome = "returned", !.value = None]

\* return true
ReturnTrue(call) ==
  [call EXCEPT !.pc = "done", !.outcome = "returned", !.value = Some(TRUE)]

\* The outcome of the verifier's answer ok.
AfterVerify(call, ok) ==
  LET seen == [call EXCEPT !.evaluated = Append(@, "verify"),
                           !.verified = Some(ok)]
  IN  IF ~ok
      THEN LogAndReturn(seen, "[ERROR Frontend] ZK ticket PCD is not valid")
      ELSE [seen EXCEPT !.pc = "verified"]

AfterSignerCheck(call, pcdClaim) ==
  LET seen == [call EXCEPT !.evaluated = Append(@, "signer")]
  IN  IF ~isETHBerlinPublicKey(pcdClaim.signer)
      THEN LogAndReturn(seen, "[ERROR Frontend] PCD is not signed by ETHBerlin")
      ELSE [seen EXCEPT !.pc = "signerChecked"]

AfterWatermarkCheck(call, pcdClaim, addr) ==
  LET seen == [call EXCEPT !.evaluated = Append(@, "watermark")]
  IN  IF watermarkMismatch(pcdClaim, addr)
      THEN LogAndReturn(seen, "[ERROR Frontend] PCD watermark doesn't match")
      ELSE ReturnTrue(seen)

\* What the server can answer.
Statuses == {200, 400, 403, 500}

\* fetch('/api/verify', {method: 'POST', body, headers}) is issued; body is
\* the JSON object {pcd, address}.
AfterFetchIssued(call, pcd, addr) ==
  [call EXCEPT !.pc = "awaiting", !.posts = @ + 1, !.fetch = "pending",
               !.request = Some([ url |-> "/api/verify", method |-> "POST",
                                  contentType |-> "application/json",
                                  body |-> [pcd |-> pcd, address |-> addr] ])]

\* The awaited fetch resolved with a response: the try block is left and
\* the function returns true.
AfterFetchResolved(call, status) ==
  ReturnTrue([call EXCEPT !.fetch = "resolved", !.status = Some(status)])

\* Mutant: the catch block starts the request again.
AfterFetchRejected_retry(call) ==
  [call EXCEPT !.pc = "start", !.fetch = "rejected",
               !.log = Append(@, "Error: TypeError: Failed to fetch")]

\* The awaited fetch rejected: catch (e) logs and returns.
AfterFetchRejected(call) ==
  LogAndReturn([call EXCEPT !.fetch = "rejected"],
               "Error: TypeError: Failed to fetch")

\* ------------------------------------------------------------------------
\* State.

VARIABLES
  claim,    \* the claim: the encoder's argument, the claim of the PCD
  op,       \* the encoder function that was called, "" before the call
  result,   \* what the encoder call did: Returned(..) or Threw(..)
  address,  \* the address argument of verifyProofFrontend, sendPCDToServer
  verify,   \* the call of verifyProofFrontend
  send      \* the call of sendPCDToServer

vars == <<claim, op, result, address, verify, send>>

NoResult == [outcome |-> "none", value |-> <<>>, error |-> ""]

\* -------- the encoder, called once on any claim

Init ==
  /\ claim \in Claims
  /\ op = ""
  /\ result = NoResult
  /\ address = ""
  /\ verify = Idle
  /\ send = Idle

Call_snarkInputForValidEventIds ==
  /\ op = ""
  /\ op' = "snarkInputForValidEventIds"
  /\ result' = snarkInputForValidEventIds(claim.validEventIds)
  /\ UNCHANGED <<claim, address, verify, send>>

Call_publicSignalsFromClaim ==
  /\ op = ""
  /\ op' = "publicSignalsFromClaim"
  /\ result' = publicSignalsFromClaim(claim)
  /\ UNCHANGED <<claim, address, verify, send>>

Next ==
  \/ Call_snarkInputForValidEventIds
  \/ Call_publicSignalsFromClaim

Spec == Init /\ [][Next]_vars

\* -------- verifyProofFrontend(_pcd, address)

\* The PCDs handed to the frontend: any signer, any watermark.
PcdClaims ==
  [ partialTicket : {AllTicketFields},
    nullifierHash : {Some(NULLIFIER_HASH)},
    signer : Signers,
    validEventIds : {None},
    externalNullifier : {None},
    watermark : Watermarks ]

InitPcd ==
  /\ claim \in PcdClaims
  /\ address \in Addresses
  /\ op = ""
  /\ result = NoResult
  /\ verify = Idle
  /\ send = Idle

\* await ZKEdDSAEventTicketPCDPackage.deserialize(_pcd)
Deserialize ==
  /\ verify.pc = "start"
  /\ verify' = [verify EXCEPT !.pc = "deserialized"]
  /\ UNCHANGED <<claim, op, result, address, send>>

\* deserialize rejects: the exception leaves verifyProofFrontend.
DeserializeRejects ==
  /\ verify.pc = "start"
  /\ verify' = [verify EXCEPT !.pc = "done", !.outcome = "threw"]
  /\ UNCHANGED <<claim, op, result, address, send>>

\* await ZKEdDSAEventTicketPCDPackage.verify(deserializedPCD)
Verify ==
  /\ verify.pc = "deserialized"
  /\ \E ok \in BOOLEAN : verify' = AfterVerify(verify, ok)
  /\ UNCHANGED <<claim, op, result, address, send>>

CheckSigner ==
  /\ verify.pc = "verified"
  /\ verify' = AfterSignerCheck(verify, claim)
  /\ UNCHANGED <<claim, op, result, address, send>>

CheckWatermark ==
  /\ verify.pc = "signerChecked"
  /\ verify' = AfterWatermarkCheck(verify, claim, address)
  /\ UNCHANGED <<claim, op, result, address, send>>

NextVerify ==
  \/ Deserialize
  \/ DeserializeRejects
  \/ Verify
  \/ CheckSigner
  \/ CheckWatermark

SpecVerify == InitPcd /\ [][NextVerify]_vars

\* -------- sendPCDToServer(_pcd, address)

Fetch ==
  /\ send.pc = "start"
  /\ send' = AfterFetchIssued(send, claim, address)
  /\ UNCHANGED <<claim, op, result, address, verify>>

FetchResolves ==
  /\ send.pc = "awaiting"
  /\ \E status \in Statuses : send' = AfterFetchResolved(send, status)
  /\ UNCHANGED <<claim, op, result, address, verify>>

FetchRejects ==
  /\ send.pc = "awaiting"
  /\ send' = AfterFetchRejected(send)
  /\ UNCHANGED <<claim, op, result, address, verify>>

NextSend ==
  \/ Fetch
  \/ FetchResolves
  \/ FetchRejects

SpecSend == InitPcd /\ [][NextSend]_vars

\* ------------------------------------------------------------------------
\* Reference values, computed outside the model, that the claims are stated
\* against.

NEGATIVE_ONE ==
  "21888242871839275222246405745257275088548364400416034343698204186575808495616"

ReferenceUuidEncoding ==
  ("53edb3e7-6733-41e0-a9be-488877c5c572" :> "111560146890584288369567824893314450802") @@
  ("f47ac10b-58cc-4372-a567-0e02b2c3d479" :> "324969006592305634633390616021200786553") @@
  ("00000000-0000-0000-0000-000000000000" :> "0") @@
  ("9b2c7e4a-1f3d-4c8b-8a6e-5d0f1e2a3b4c" :> "206261361864599720135163161850826865484") @@
  ("6ba7b810-9dad-11d1-80b4-00c04fd430c8" :> "143098242404177361603877621312831893704")

ReferenceHexEncoding ==
  ("1ebfb986fbac5113f8e2c72286fe9362f8e7d211dbc68227a468d7b919e75003" :>
     "13908133709081944902758389525983124100292637002438232157513257158004852609027") @@
  ("10ec38f11baacad5535525bbe8e343074a483c051aa1616266f3b1df3fb7d204" :>
     "7654374482676219729919246464135900991450848628968334062174564799457623790084") @@
  ("05e0c4e8517758da3a26c80310ff2fe65b9f85d89dfc9c80e6d0b6477f88173e" :>
     "2658696990997679927259430495938453033612384821046330804164935913637421782846") @@
  ("29ae64b615383a0ebb1bc37b3a642d82d37545f0f5b1444330300e4c4eedba3f" :>
     "18852953264765021758165045442761617487242246681540213362114332008455443692095") @@
  ("30644e72e131a029b85045b68181585d2833e84879b9709143e1f593f0000001" :>
     "21888242871839275222246405745257275088548364400416034343698204186575808495617") @@
  ("0xd8dA6BF26964aF9D7eEd9e03E53415D37aA96045" :>
     "1238012972454248237435767387143779415173800484933") @@
  ("0x00000000219ab540356cBB839Cbe05303d7705Fa" :>
     "44667813780391404145283579356374304250") @@
  ("0x0000000000000000000000000000000000000001" :> "1")

\* sha256(message) >> 8, in decimal.
ReferenceMessageHash ==
  ("dummy-nullifier-for-eddsa-event-ticket-pcds" :>
     "306465440890318044973041747790316827840548833882931738783263710507404631669") @@
  ("" :> "402294282224820691521621923135083292147655861907023574192888269535608066744") @@
  ("alice@example.com" :>
     "451523248401775574065199658782233048858849048780321616552619521812170589913") @@
  ("bob@example.com" :>
     "169564712524703681053609577745003227567207035376697870813500497141583280640") @@
  ("Alice" :>
     "105604062594208324347902843921891868040964128638753462521623671618818120240") @@
  ("Bob" :>
     "363305821584482453213969153853109354345319568116917803328559457093250954473")

DEFAULT_NULLIFIER == ReferenceMessageHash["dummy-nullifier-for-eddsa-event-ticket-pcds"]

\* The length of the allowlist argument; an absent one counts as 0.
ArgLength == IF claim.validEventIds = None THEN 0 ELSE Len(claim.validEventIds[1])

ArgIds == IF claim.validEventIds = None THEN <<>> ELSE claim.validEventIds[1]

EncoderReturned == op = "publicSignalsFromClaim" /\ result.outcome = "returned"

\* Indices of the returned vector, 1-based: index k of the layout is k + 1.
SlotIndex(k) == k + 1

Slot(k) == result.value[SlotIndex(k)]

\* ------------------------------------------------------------------------
\* C1: for an allowlist of length L, 0 <= L <= 20 (absent counts as 0),
\* snarkInputForValidEventIds returns exactly 20 entries: entry i < L is the
\* encoding of the i-th identifier, in order, and every entry from L on is
\* NEGATIVE_ONE.
C1_AllowlistSlots ==
  (op = "snarkInputForValidEventIds" /\ ArgLength <= 20) =>
    /\ result.outcome = "returned"
    /\ Len(result.value) = 20
    /\ \A i \in 1..20 :
         result.value[i] = IF i <= ArgLength
                           THEN ReferenceUuidEncoding[ArgIds[i]]
                           ELSE NEGATIVE_ONE

C1_Witness ==
  /\ op = "snarkInputForValidEventIds"
  /\ ArgLength = 3
  /\ result.outcome = "returned"
  /\ result.value[3] # NEGATIVE_ONE
  /\ result.value[4] = NEGATIVE_ONE

\* C2: for an allowlist of more than 20 entries snarkInputForValidEventIds
\* fails with the capacity-exceeded error and returns no array, and so does
\* publicSignalsFromClaim on a claim with such an allowlist.
C2_CapacityExceeded ==
  (op # "" /\ ArgLength > 20) =>
    /\ result.outcome = "threw"
    /\ result.value = <<>>
    /\ result.error =
         "validEventIds for a ZKEdDSAEventTicketPCD can have up to 100 entries.  " \o
         NatToString(ArgLength) \o
         " given."

C2_Witness ==
  /\ op = "publicSignalsFromClaim"
  /\ ArgLength = 21
  /\ result.outcome = "threw"

\* What the layout puts in each ticket slot.
ExpectedUuid(x) == IF x = None THEN NEGATIVE_ONE ELSE ReferenceUuidEncoding[x[1]]

ExpectedNumber(x) ==
  IF x = None THEN NEGATIVE_ONE
  ELSE IF x[1] = TIMESTAMP THEN "1716854400"
  ELSE IF x[1] = TIMESTAMP - 1 THEN "1716854399"
  ELSE IF x[1] = 3 THEN "3" ELSE "-1"

ExpectedBoolean(x) ==
  IF x = None THEN NEGATIVE_ONE ELSE IF x[1] THEN "1" ELSE "0"

ExpectedHash(x) == IF x = None THEN NEGATIVE_ONE ELSE ReferenceMessageHash[x[1]]

\* A string handed through: the value, or the fallback for undefined and ''.
ExpectedPassThrough(x, fallback) ==
  IF x = None THEN fallback ELSE IF x[1] = "" THEN fallback ELSE x[1]

\* C3: for a claim whose allowlist is absent or has at most 20 entries,
\* whatever optional fields are present, publicSignalsFromClaim returns 38
\* entries in the fixed order: 0..10 the ticket fields, 11 the reserved
\* placeholder, 12 nullifierHash, 13 and 14 the signer, 15..34 the allowlist
\* slots, 35 checkValidEventIds, 36 externalNullifier, 37 watermark.
C3_Layout ==
  (op = "publicSignalsFromClaim" /\ ArgLength <= 20) =>
    /\ result.outcome = "returned"
    /\ Len(result.value) = 38
    /\ Slot(0) = ExpectedUuid(claim.partialTicket.ticketId)
    /\ Slot(1) = ExpectedUuid(claim.partialTicket.eventId)
    /\ Slot(2) = ExpectedUuid(claim.partialTicket.productId)
    /\ Slot(3) = ExpectedNumber(claim.partialTicket.timestampConsumed)
    /\ Slot(4) = ExpectedNumber(claim.partialTicket.timestampSigned)
    /\ Slot(5) = ExpectedPassThrough(claim.partialTicket.attendeeSemaphoreId,
                                     NEGATIVE_ONE)
    /\ Slot(6) = ExpectedBoolean(claim.partialTicket.isConsumed)
    /\ Slot(7) = ExpectedBoolean(claim.partialTicket.isRevoked)
    /\ Slot(8) = ExpectedNumber(claim.partialTicket.ticketCategory)
    /\ Slot(9) = ExpectedHash(claim.partialTicket.attendeeEmail)
    /\ Slot(10) = ExpectedHash(claim.partialTicket.attendeeName)
    /\ Slot(11) = NEGATIVE_ONE
    /\ Slot(12) = ExpectedPassThrough(claim.nullifierHash, NEGATIVE_ONE)
    /\ Slot(13) = ReferenceHexEncoding[claim.signer[1]]
    /\ Slot(14) = ReferenceHexEncoding[claim.signer[2]]
    /\ \A i \in 1..20 :
         Slot(14 + i) = IF i <= ArgLength
                        THEN ReferenceUuidEncoding[ArgIds[i]]
                        ELSE NEGATIVE_ONE
    /\ Slot(35) = IF claim.validEventIds = None THEN "0" ELSE "1"
    /\ Slot(36) = ExpectedPassThrough(claim.externalNullifier, DEFAULT_NULLIFIER)
    /\ Slot(37) = claim.watermark

C3_Witness ==
  /\ EncoderReturned
  /\ claim.partialTicket.ticketId # None
  /\ claim.partialTicket.eventId = None
  /\ claim.partialTicket.isConsumed = Some(TRUE)
  /\ claim.partialTicket.attendeeName = None
  /\ ArgLength = 2
  /\ Len(result.value) = 38

AllOptionalAbsent ==
  /\ claim.partialTicket = NoTicketFields
  /\ claim.nullifierHash = None
  /\ claim.validEventIds = None
  /\ claim.externalNullifier = None

\* C4: for a claim with every optional field absent, every slot is
\* NEGATIVE_ONE except the two signer slots (the encodings of signer[0] and
\* signer[1]), checkValidEventIds ("0"), externalNullifier (the default
\* constant) and watermark (the claim's watermark unchanged).
C4_AllAbsent ==
  (op = "publicSignalsFromClaim" /\ AllOptionalAbsent) =>
    /\ result.outcome = "returned"
    /\ \A k \in (0..37) \ {13, 14, 35, 36, 37} : Slot(k) = NEGATIVE_ONE
    /\ Slot(13) = ReferenceHexEncoding[claim.signer[1]]
    /\ Slot(14) = ReferenceHexEncoding[claim.signer[2]]
    /\ Slot(35) = "0"
    /\ Slot(36) = DEFAULT_NULLIFIER
    /\ Slot(37) = claim.watermark

C4_Witness ==
  /\ EncoderReturned
  /\ AllOptionalAbsent
  /\ claim.signer = OTHER_PUBLIC_KEY
  /\ Slot(37) = "1"

\* A decimal numeral without sign or leading zero.
IsDecimalString(s) ==
  /\ Len(s) >= 1
  /\ \A i \in 1..Len(s) : CharAt(s, i) \in DecDigits
  /\ Len(s) > 1 => CharAt(s, 1) # "0"

\* a <= b for two such numerals.
DecimalLeq(a, b) ==
  \/ Len(a) < Len(b)
  \/ /\ Len(a) = Len(b)
     /\ \/ a = b
        \/ \E i \in 1..Len(a) :
             /\ SubSeq(a, 1, i - 1) = SubSeq(b, 1, i - 1)
             /\ DecVal(CharAt(a, i)) < DecVal(CharAt(b, i))

\* The decimal string of an integer in [0, P - 1].
IsFieldElementString(s) ==
  s = NEGATIVE_ONE \/ (IsDecimalString(s) /\ DecimalLeq(s, NEGATIVE_ONE))

NonNegative(x) == x = None \/ x[1] >= 0

FieldElementOrFalsy(x) == x = None \/ x[1] = "" \/ IsFieldElementString(x[1])

\* The fields emitted without a range check hold values of the field.
InputsInField ==
  /\ NonNegative(claim.partialTicket.timestampConsumed)
  /\ NonNegative(claim.partialTicket.timestampSigned)
  /\ NonNegative(claim.partialTicket.ticketCategory)
  /\ FieldElementOrFalsy(claim.partialTicket.attendeeSemaphoreId)
  /\ FieldElementOrFalsy(claim.nullifierHash)
  /\ FieldElementOrFalsy(claim.externalNullifier)
  /\ IsFieldElementString(claim.watermark)
  /\ IsFieldElementString(ReferenceHexEncoding[claim.signer[1]])
  /\ IsFieldElementString(ReferenceHexEncoding[claim.signer[2]])

C6_CheckFlag ==
  EncoderReturned =>
    /\ Slot(35) = "1" <=> claim.validEventIds # None
    /\ Slot(35) = "0" <=> claim.validEventIds = None
    /\ ArgLength = 0 => \A k \in 15..34 : Slot(k) = NEGATIVE_ONE

C6_Witness ==
  /\ EncoderReturned
  /\ claim.validEventIds = Some(<<>>)
  /\ Slot(35) = "1"
  /\ Slot(15) = NEGATIVE_ONE

\* C7 as stated: attendeeSemaphoreId and nullifierHash are emitted verbatim
\* whenever present, the empty string included, and NEGATIVE_ONE is emitted
\* exactly when the field is absent.
C7_Original ==
  EncoderReturned =>
    /\ claim.partialTicket.attendeeSemaphoreId # None =>
         Slot(5) = claim.partialTicket.attendeeSemaphoreId[1]
    /\ claim.partialTicket.attendeeSemaphoreId = None <=> Slot(5) = NEGATIVE_ONE
    /\ claim.nullifierHash # None => Slot(12) = claim.nullifierHash[1]
    /\ claim.nullifierHash = None <=> Slot(12) = NEGATIVE_ONE

Falsy(x) == x = None \/ x = Some("")

\* C7, amended: attendeeSemaphoreId and nullifierHash are emitted verbatim
\* whenever present and not the empty string, and NEGATIVE_ONE is emitted in
\* their place when the field is absent or is the empty string.
C7_PassThrough ==
  EncoderReturned =>
    /\ ~Falsy(claim.partialTicket.attendeeSemaphoreId) =>
         Slot(5) = claim.partialTicket.attendeeSemaphoreId[1]
    /\ Falsy(claim.partialTicket.attendeeSemaphoreId) => Slot(5) = NEGATIVE_ONE
    /\ ~Falsy(claim.nullifierHash) => Slot(12) = claim.nullifierHash[1]
    /\ Falsy(claim.nullifierHash) => Slot(12) = NEGATIVE_ONE

C7_Witness ==
  /\ EncoderReturned
  /\ claim.partialTicket.attendeeSemaphoreId = Some(SEMAPHORE_ID)
  /\ Slot(5) = SEMAPHORE_ID
  /\ claim.nullifierHash = Some("")
  /\ Slot(12) = NEGATIVE_ONE

\* C8 as stated: the externalNullifier slot is the claim's externalNullifier
\* whenever that field is present, the empty string included, and the default
\* STATIC_TICKET_PCD_NULLIFIER exactly when the field is absent.
C8_Original ==
  EncoderReturned =>
    /\ claim.externalNullifier # None => Slot(36) = claim.externalNullifier[1]
    /\ claim.externalNullifier = None <=> Slot(36) = DEFAULT_NULLIFIER

\* C8, amended: the externalNullifier slot is the claim's externalNullifier
\* whenever that field is present and not the empty string, and the default
\* STATIC_TICKET_PCD_NULLIFIER, the same value on every call, when the field
\* is absent or is the empty string.
C8_ExternalNullifier ==
  EncoderReturned =>
    /\ ~Falsy(claim.externalNullifier) => Slot(36) = claim.externalNullifier[1]
    /\ Falsy(claim.externalNullifier) => Slot(36) = DEFAULT_NULLIFIER

C8_Witness ==
  /\ EncoderReturned
  /\ claim.externalNullifier = Some("")
  /\ Slot(36) = DEFAULT_NULLIFIER

\* ------------------------------------------------------------------------
\* The three checks of verifyProofFrontend, as the claim orders them.
ChecksInOrder == <<"verify", "signer", "watermark">>

\* C9: verifyProofFrontend returns true only if the verifier accepted the
\* proof, its signer is the ETHBerlin key (both halves) and its watermark is
\* the numeric encoding of the address.  The checks run in that order, the
\* first failing one ends the call with undefined and without throwing, and
\* the signer and watermark are only looked at after the proof verified.
C9_VerifyChecks ==
  /\ verify.evaluated = SubSeq(ChecksInOrder, 1, Len(verify.evaluated))
  /\ Len(verify.evaluated) >= 2 => verify.verified = Some(TRUE)
  /\ Len(verify.evaluated) = 3 => claim.signer = ETHBERLIN_PUBLIC_KEY
  /\ verify.value = Some(TRUE) =>
       /\ verify.pc = "done"
       /\ Len(verify.evaluated) = 3
       /\ verify.verified = Some(TRUE)
       /\ claim.signer = ETHBERLIN_PUBLIC_KEY
       /\ claim.watermark = ReferenceHexEncoding[address]
  /\ (verify.pc = "done" /\ verify.evaluated # <<>>) =>
       /\ verify.outcome = "returned"
       /\ verify.value = None <=>
            \/ verify.verified = Some(FALSE)
            \/ claim.signer # ETHBERLIN_PUBLIC_KEY
            \/ claim.watermark # ReferenceHexEncoding[address]
       /\ verify.verified = Some(FALSE) => verify.evaluated = <<"verify">>
       /\ (verify.verified = Some(TRUE) /\ claim.signer # ETHBERLIN_PUBLIC_KEY) =>
            verify.evaluated = <<"verify", "signer">>

C9_Witness ==
  /\ verify.pc = "done"
  /\ verify.value = Some(TRUE)
  /\ verify.evaluated = ChecksInOrder
  /\ address = "0xd8dA6BF26964aF9D7eEd9e03E53415D37aA96045"

\* C10: a call of sendPCDToServer issues exactly one POST and never retries;
\* a transport failure is caught and the call ends with undefined, no
\* exception propagated; in every other case, whatever the response, it
\* returns true.
C10_SendOnce ==
  /\ send.posts = IF send.pc = "start" THEN 0 ELSE 1
  /\ send.outcome # "threw"
  /\ send.pc = "done" =>
       /\ send.outcome = "returned"
       /\ send.fetch \in {"resolved", "rejected"}
       /\ send.fetch = "rejected" => (send.value = None /\ send.log # <<>>)
       /\ send.fetch = "resolved" => send.value = Some(TRUE)
  /\ send.pc # "done" => send.outcome = "none"

C10_Witness ==
  /\ send.pc = "done"
  /\ send.posts = 1
  /\ send.status = Some(500)
  /\ send.value = Some(TRUE)

====
